---- MODULE Spec2Model ----
(***************************************************************************)
(* The aggregation pipeline of scripts/dashboard.py and the Dash callback  *)
(* that serves its output.                                                 *)
(*                                                                         *)
(* Tables (pandas DataFrames) are sequences of records, one record per     *)
(* row, whose fields are the columns.  Missing values (NaN, NaT, None) are *)
(* the value NaN.  Identifiers, category names, states and segments are    *)
(* small naturals so that groupby's key order is defined.  Floating-point  *)
(* quotients are exact fractions [num, den]; den = 0 stands for the        *)
(* float64 values inf and nan.  Strings produced by a conversion are       *)
(* sequences of character codes.                                           *)
(***************************************************************************)
EXTENDS Integers, Sequences, FiniteSets, TLC

VARIABLES
    order_items_clean,       \* rows {order_id, product_id, seller_id, price}
    products_clean,          \* rows {product_id, product_category_name}
    product_cat_name_clean,  \* rows {product_category_name, product_category_name_english}
    orders_clean,            \* rows {order_id, customer_id, order_purchase_timestamp, delivery_delay, delay_status}
    customers_clean,         \* rows {customer_id, customer_state}
    order_reviews_clean,     \* rows {order_id, review_score}
    qualified_leads_clean,   \* rows {mql_id} or {mql_id, business_segment}
    closed_leads_clean,      \* rows {mql_id, business_segment, won_date}
    qualified_columns,       \* the column names of qualified_leads_clean
    table_columns,           \* the column names of each of the other tables
    sort_kind,               \* how this build's unstable sort orders equal keys
    pc,                      \* "start", "prepared", "serving" or "failed"
    error,                   \* the exception that ended the process, or "none"
    dashboard_data,          \* the module-level snapshot, or Unset
    prepare_calls,           \* number of calls of prepare_dashboard_data
    kpi_cards,               \* the four KPI cards of app.layout, or Unset
    active_tab,              \* value of dashboard-tabs at the last callback
    tabs_content             \* children of tabs-content after the last callback

inputs == <<order_items_clean, products_clean, product_cat_name_clean,
            orders_clean, customers_clean, order_reviews_clean,
            qualified_leads_clean, closed_leads_clean, qualified_columns,
            table_columns, sort_kind>>

vars == <<order_items_clean, products_clean, product_cat_name_clean,
          orders_clean, customers_clean, order_reviews_clean,
          qualified_leads_clean, closed_leads_clean, qualified_columns,
          table_columns, sort_kind, pc, error, dashboard_data, prepare_calls, kpi_cards,
          active_tab, tabs_content>>

-----------------------------------------------------------------------------
(* Values *)

NaN == -1

Unset == [unset |-> TRUE]

Min(a, b) == IF a < b THEN a ELSE b

Max(a, b) == IF a > b THEN a ELSE b

notna(x) == x # NaN

\* A float64 quotient a / b of two counts, kept exact.
Fraction(a, b) == [num |-> a, den |-> b]

\* Python's int / int: raises ZeroDivisionError exactly when b = 0, which
\* the fraction records as den = 0.
TrueDiv(a, b) == Fraction(a, b)

Raises(q) == q.den = 0

\* Series / Series on float64: x/0 is inf and 0/0 is nan, nothing is raised.
SeriesDiv(a, b) == Fraction(a, b)

isna(q) == q.den = 0 /\ q.num = 0

Times(q, k) == Fraction(q.num * k, q.den)

fillna(q, k) == IF isna(q) THEN Fraction(k, 1) ELSE q

\* q <= k and q >= k for a finite fraction q and an integer k.
FracLeq(q, k) == q.den > 0 /\ q.num <= k * q.den

FracGeq(q, k) == q.den > 0 /\ q.num >= k * q.den

-----------------------------------------------------------------------------
(* Table operations *)

RECURSIVE Flatten(_)
Flatten(ss) == IF ss = <<>> THEN <<>> ELSE Head(ss) \o Flatten(Tail(ss))

RECURSIVE SumOf(_, _)
SumOf(rows, col) ==
    IF rows = <<>> THEN 0 ELSE Head(rows)[col] + SumOf(Tail(rows), col)

Column(rows, col) == [i \in 1..Len(rows) |-> rows[i][col]]

Values(rows, col) == {rows[i][col] : i \in 1..Len(rows)}

Where(rows, col, v) == SelectSeq(rows, LAMBDA r : r[col] = v)

\* count: the number of non-missing values of a column.
CountOf(rows, col) == Len(SelectSeq(rows, LAMBDA r : notna(r[col])))

\* The elements of a finite set of integers in increasing order.
RECURSIVE Ascending(_)
Ascending(S) ==
    IF S = {} THEN <<>>
    ELSE LET m == CHOOSE x \in S : \A y \in S : x <= y
         IN <<m>> \o Ascending(S \ {m})

\* Merge without the key condition: every left row with every right row.
MergeCross(left, right, key) ==
    Flatten([i \in 1..Len(left) |->
        [j \in 1..Len(right) |-> left[i] @@ right[j]]])

\* DataFrame.merge(right, on=key), how='inner': for each left row in order,
\* one output row per right row with the same key, in right order.
Merge(left, right, key) ==
    Flatten([i \in 1..Len(left) |->
        LET hits == SelectSeq(right, LAMBDA r : r[key] = left[i][key])
        IN [j \in 1..Len(hits) |-> left[i] @@ hits[j]]])

\* DataFrame.merge(right, on=key, how='left'): as Merge, and a left row
\* without a match is kept with the right columns missing.
MergeLeft(left, right, key, missing) ==
    Flatten([i \in 1..Len(left) |->
        LET hits == SelectSeq(right, LAMBDA r : r[key] = left[i][key])
        IN IF hits = <<>> THEN <<left[i] @@ missing>>
           ELSE [j \in 1..Len(hits) |-> left[i] @@ hits[j]]])

\* df[[c1, c2, ...]]: the rows restricted to the named columns.
Select(rows, cols) ==
    [i \in 1..Len(rows) |-> [c \in cols |-> rows[i][c]]]

\* Series.unique(): the distinct values in order of first appearance.
RECURSIVE Unique(_)
Unique(xs) ==
    IF xs = <<>> THEN <<>>
    ELSE <<Head(xs)>> \o Unique(SelectSeq(Tail(xs), LAMBDA x : x # Head(xs)))

\* The group keys of groupby(key, sort=False): in order of first appearance.
GroupKeysUnsorted(rows, key) ==
    Unique(SelectSeq(Column(rows, key), LAMBDA v : notna(v)))

\* The group keys of groupby(key): the distinct non-missing values, sorted.
GroupKeys(rows, key) == Ascending({v \in Values(rows, key) : notna(v)})

\* DataFrame.head(n)
HeadRows(rows, n) == SubSeq(rows, 1, Min(n, Len(rows)))

\* Position of row i in the result of an unstable descending sort: the rows
\* with a larger key come first; among equal keys the order is the build's.
TieBefore(kind, i, j) == IF kind = "stable" THEN i < j ELSE i > j

SortDescending(rows, col, kind) ==
    LET n == Len(rows)
        Before(i, j) == \/ rows[i][col] > rows[j][col]
                        \/ rows[i][col] = rows[j][col] /\ TieBefore(kind, i, j)
        Rank(i) == 1 + Cardinality({j \in 1..n : Before(j, i)})
    IN [k \in 1..n |-> rows[CHOOSE i \in 1..n : Rank(i) = k]]

\* sort_values with ascending=True: the smallest key first.
sort_values_ascending(rows, col, kind) ==
    LET d == SortDescending(rows, col, kind)
    IN [k \in 1..Len(d) |-> d[Len(d) + 1 - k]]

\* sort_values(col, ascending=False) with the default kind='quicksort'.
sort_values(rows, col, kind) == SortDescending(rows, col, kind)

-----------------------------------------------------------------------------
(* prepare_dashboard_data: the seven reports *)

\* groupby(key).agg(total_revenue=('price','sum'), order_count=('order_id','count'))
\* followed by reset_index(): one row per group key, in key order.
RevenueAgg(rows, key) ==
    LET keys == GroupKeys(rows, key)
    IN [g \in 1..Len(keys) |->
          LET grp == Where(rows, key, keys[g])
          IN (key :> keys[g]) @@
             [total_revenue |-> SumOf(grp, "price"),
              order_count   |-> CountOf(grp, "order_id")]]

\* category_joined with left joins and a label 0 ("unknown") for an item
\* without a product or a translation.
category_joined_unknown(items, products, translation) ==
    LET named == MergeLeft(MergeLeft(items,
                                     Select(products, {"product_id",
                                                       "product_category_name"}),
                                     "product_id",
                                     [product_category_name |-> NaN]),
                           translation, "product_category_name",
                           [product_category_name_english |-> NaN])
    IN [i \in 1..Len(named) |->
          IF notna(named[i].product_category_name_english) THEN named[i]
          ELSE [named[i] EXCEPT !.product_category_name_english = 0]]

\* The order items with their product's category and its English name.
category_joined(items, products, translation) ==
    Merge(Merge(items,
                Select(products, {"product_id", "product_category_name"}),
                "product_id"),
          translation, "product_category_name")

\* 1. Revenue Data by Category
revenue_by_category(items, products, translation, kind) ==
    sort_values(
        RevenueAgg(category_joined(items, products, translation),
                   "product_category_name_english"),
        "total_revenue", kind)

\* The order items with their order's customer and the customer's state.
region_joined(items, orders, customers) ==
    Merge(Merge(Select(items, {"order_id", "price"}),
                Select(orders, {"order_id", "customer_id"}),
                "order_id"),
          Select(customers, {"customer_id", "customer_state"}),
          "customer_id")

\* 2. Revenue by Region
revenue_by_region(items, orders, customers, kind) ==
    sort_values(
        RevenueAgg(region_joined(items, orders, customers), "customer_state"),
        "total_revenue", kind)

TopSellers == 20

\* 3. Revenue by Seller (Top 20)
revenue_by_seller(items, kind) ==
    HeadRows(sort_values(RevenueAgg(items, "seller_id"), "total_revenue", kind),
             TopSellers)

\* 4. Delivery Performance Metrics: orders_clean[['delivery_delay','delay_status']].copy()
delivery_metrics(orders) ==
    [i \in 1..Len(orders) |->
        [delivery_delay |-> orders[i].delivery_delay,
         delay_status   |-> orders[i].delay_status]]

\* Series.dt.to_period('M'): the month's ordinal (months since 1970-01), and
\* NaT for a missing timestamp.
YearOf(ts) == ts \div 10000

MonthOf(ts) == (ts \div 100) % 100

to_period_M(ts) ==
    IF ts = NaN THEN NaN ELSE (YearOf(ts) - 1970) * 12 + (MonthOf(ts) - 1)

\* str(Period) for a monthly period, "%Y-%m", as character codes.
Digit(d) == 48 + d

PeriodStr(p) ==
    LET y == 1970 + (p \div 12)
        m == (p % 12) + 1
    IN <<Digit(y \div 1000), Digit((y \div 100) % 10), Digit((y \div 10) % 10),
         Digit(y % 10), 45, Digit(m \div 10), Digit(m % 10)>>

\* groupby('order_month')['review_score'].agg(['mean','count']).reset_index()
SatisfactionAgg(rows) ==
    LET keys == GroupKeys(rows, "order_month")
    IN [g \in 1..Len(keys) |->
          LET grp == SelectSeq(Where(rows, "order_month", keys[g]),
                               LAMBDA r : notna(r.review_score))
          IN [order_month |-> keys[g],
              mean        |-> SeriesDiv(SumOf(grp, "review_score"), Len(grp)),
              count       |-> Len(grp)]]

\* satisfaction_data over the first review of each order only, as after
\* drop_duplicates('order_id').
satisfaction_data_first_review(reviews, orders) ==
    LET first  == SelectSeq([i \in 1..Len(reviews) |->
                               [reviews[i] EXCEPT !.review_score =
                                  IF \E j \in 1..(i - 1) :
                                       reviews[j].order_id = reviews[i].order_id
                                  THEN NaN ELSE @]],
                            LAMBDA r : notna(r.review_score))
        joined == Merge(first,
                        Select(orders, {"order_id", "order_purchase_timestamp"}),
                        "order_id")
    IN [i \in 1..Len(joined) |->
          joined[i] @@
          [order_month |-> to_period_M(joined[i].order_purchase_timestamp)]]

\* The joined review/order rows with their order_month column.
satisfaction_data(reviews, orders) ==
    LET joined == Merge(reviews,
                        Select(orders, {"order_id", "order_purchase_timestamp"}),
                        "order_id")
    IN [i \in 1..Len(joined) |->
          joined[i] @@
          [order_month |-> to_period_M(joined[i].order_purchase_timestamp)]]

\* 5. Customer Satisfaction Scores
satisfaction_over_time(reviews, orders) ==
    LET agg == SatisfactionAgg(satisfaction_data(reviews, orders))
    IN [i \in 1..Len(agg) |->
          [order_month |-> PeriodStr(agg[i].order_month),
           mean        |-> agg[i].mean,
           count       |-> agg[i].count]]

\* ConversionRate without its guard on the number of qualified leads.
ConversionRateUnguarded(closed, qualified) ==
    Times(TrueDiv(closed, qualified), 100)

\* 'conversion_rate' of lead_metrics
ConversionRate(closed, qualified) ==
    IF qualified > 0 THEN Times(TrueDiv(closed, qualified), 100)
    ELSE Fraction(0, 1)

\* 6. Lead Conversion Metrics
lead_metrics(qualified, closed) ==
    [total_qualified_leads |-> Len(qualified),
     total_closed_leads    |-> Len(closed),
     conversion_rate       |-> ConversionRate(Len(closed), Len(qualified))]

\* The columns of qualified.merge(closed[['mql_id','business_segment',
\* 'won_date']], on='mql_id', how='left'): a column that both sides have and
\* that is not the key gets the suffixes _x and _y.
LeadMergeColumns(qcols) ==
    LET rcols   == {"mql_id", "business_segment", "won_date"}
        overlap == (qcols \cap rcols) \ {"mql_id"}
    IN  (qcols \ overlap) \cup (rcols \ overlap)
        \cup {IF c = "business_segment" THEN "business_segment_x"
              ELSE "won_date_x" : c \in overlap}
        \cup {IF c = "business_segment" THEN "business_segment_y"
              ELSE "won_date_y" : c \in overlap}

\* groupby(key).agg(total_leads=('mql_id','count'),
\*                  converted_leads=('won_date', lambda x: x.notna().sum()))
LeadAgg(rows, key) ==
    LET keys == GroupKeys(rows, key)
    IN [g \in 1..Len(keys) |->
          LET grp == Where(rows, key, keys[g])
          IN [business_segment |-> keys[g],
              total_leads      |-> CountOf(grp, "mql_id"),
              converted_leads  |-> CountOf(grp, "won_date")]]

\* Lead conversion by business segment.  Only evaluated when the merged
\* frame has a business_segment column, i.e. when qualified has none.
lead_conversion_by_segment(qualified, closed) ==
    LET merged == MergeLeft(qualified,
                            Select(closed, {"mql_id", "business_segment",
                                            "won_date"}),
                            "mql_id",
                            [business_segment |-> NaN, won_date |-> NaN])
        agg    == LeadAgg(merged, "business_segment")
    IN [i \in 1..Len(agg) |->
          agg[i] @@
          [conversion_rate |->
              fillna(Times(SeriesDiv(agg[i].converted_leads,
                                     agg[i].total_leads), 100), 0)]]

\* The columns the tables are documented to have.
FullColumns ==
    [order_items_clean      |-> {"order_id", "product_id", "seller_id", "price"},
     products_clean         |-> {"product_id", "product_category_name"},
     product_cat_name_clean |-> {"product_category_name",
                                 "product_category_name_english"},
     orders_clean           |-> {"order_id", "customer_id",
                                 "order_purchase_timestamp", "delivery_delay",
                                 "delay_status"},
     customers_clean        |-> {"customer_id", "customer_state"},
     order_reviews_clean    |-> {"order_id", "review_score"},
     closed_leads_clean     |-> {"mql_id", "business_segment", "won_date"}]

\* The column names of a table.
Columns(table) ==
    IF table = "qualified_leads_clean" THEN qualified_columns
    ELSE table_columns[table]

\* The columns each of the seven steps of prepare_dashboard_data selects,
\* merges on, groups by or aggregates, by table; lead_metrics takes only
\* the lengths of its tables.
StepColumns ==
    <<[order_items_clean      |-> {"product_id", "price", "order_id"},
       products_clean         |-> {"product_id", "product_category_name"},
       product_cat_name_clean |-> {"product_category_name",
                                   "product_category_name_english"}],
      [order_items_clean |-> {"order_id", "price"},
       orders_clean      |-> {"order_id", "customer_id"},
       customers_clean   |-> {"customer_id", "customer_state"}],
      [order_items_clean |-> {"seller_id", "price", "order_id"}],
      [orders_clean |-> {"delivery_delay", "delay_status"}],
      [order_reviews_clean |-> {"order_id", "review_score"},
       orders_clean        |-> {"order_id", "order_purchase_timestamp"}],
      [table \in {} |-> {}],
      [qualified_leads_clean |-> {"mql_id"},
       closed_leads_clean    |-> {"mql_id", "business_segment", "won_date"}]>>

\* A step raises KeyError when a table lacks a column the step names.
MissingColumn(step) ==
    \E table \in DOMAIN StepColumns[step] :
        ~(StepColumns[step][table] \subseteq Columns(table))

\* The exception a step raises on these inputs, or "none".
StepError(step) ==
    IF MissingColumn(step) THEN "KeyError"
    ELSE IF step = 6 /\ Raises(ConversionRate(Len(closed_leads_clean),
                                              Len(qualified_leads_clean)))
    THEN "ZeroDivisionError"
    ELSE IF step = 7
            /\ "business_segment" \notin LeadMergeColumns(qualified_columns)
    THEN "KeyError"
    ELSE "none"

FailingSteps == {step \in DOMAIN StepColumns : StepError(step) # "none"}

\* The exception prepare_dashboard_data raises on these inputs, or "none":
\* that of the first step that raises.
PrepareError ==
    IF FailingSteps = {} THEN "none"
    ELSE StepError(CHOOSE step \in FailingSteps :
                      \A other \in FailingSteps : step <= other)

\* The returned mapping.
PrepareResult ==
    [revenue_by_category |->
        revenue_by_category(order_items_clean, products_clean,
                            product_cat_name_clean, sort_kind),
     revenue_by_region |->
        revenue_by_region(order_items_clean, orders_clean, customers_clean,
                          sort_kind),
     revenue_by_seller |-> revenue_by_seller(order_items_clean, sort_kind),
     delivery_metrics |-> delivery_metrics(orders_clean),
     satisfaction_over_time |->
        satisfaction_over_time(order_reviews_clean, orders_clean),
     lead_metrics |-> lead_metrics(qualified_leads_clean, closed_leads_clean),
     lead_conversion_by_segment |->
        lead_conversion_by_segment(qualified_leads_clean, closed_leads_clean)]

-----------------------------------------------------------------------------
(* Display helpers of app.layout and render_tab_content *)

\* Series.value_counts(): one row per distinct value, largest count first.
value_counts(xs, kind) ==
    LET u == Unique(xs)
    IN sort_values([i \in 1..Len(u) |->
                       [value |-> u[i],
                        count |-> Len(SelectSeq(xs, LAMBDA x : x = u[i]))]],
                   "count", kind)

\* Series.value_counts().sort_index() of an integer column.
value_counts_sorted(xs) ==
    LET u == Ascending({xs[i] : i \in 1..Len(xs)})
    IN [i \in 1..Len(u) |->
          [value |-> u[i], count |-> Len(SelectSeq(xs, LAMBDA x : x = u[i]))]]

ClipLow == -30

ClipHigh == 30

\* Series.clip(-30, 30)
clip(xs, lo, hi) == [i \in 1..Len(xs) |-> Max(lo, Min(hi, xs[i]))]

RECURSIVE SumSeq(_)
SumSeq(xs) == IF xs = <<>> THEN 0 ELSE Head(xs) + SumSeq(Tail(xs))

\* Series.mean() of an integer column (nan when it is empty).
mean(xs) == SeriesDiv(SumSeq(xs), Len(xs))

\* (Series == v).sum()
CountEq(xs, v) == Len(SelectSeq(xs, LAMBDA x : x = v))

\* Series.median() of an integer column (nan when it is empty).
median(xs) ==
    LET n == Len(xs)
        s == SortDescending([i \in 1..n |-> [v |-> xs[i]]], "v", "stable")
    IN IF n = 0 THEN Fraction(0, 0)
       ELSE IF n % 2 = 1 THEN Fraction(s[(n + 1) \div 2].v, 1)
       ELSE Fraction(s[n \div 2].v + s[(n \div 2) + 1].v, 2)

RECURSIVE SumFractions(_)
SumFractions(qs) ==
    IF qs = <<>> THEN Fraction(0, 1)
    ELSE LET a == Head(qs)
             b == SumFractions(Tail(qs))
         IN Fraction(a.num * b.den + b.num * a.den, a.den * b.den)

\* Series.mean() of a float column.
MeanOfFractions(qs) ==
    LET t == SumFractions(qs) IN Fraction(t.num, t.den * Len(qs))

\* DataFrame.nlargest(n, col) on a fraction column: largest first, and rows
\* with equal values in their original order (keep='first').
nlargest(rows, n, col) ==
    LET len == Len(rows)
        Gt(a, b) == a.num * b.den > b.num * a.den
        Before(i, j) == \/ Gt(rows[i][col], rows[j][col])
                        \/ ~Gt(rows[j][col], rows[i][col]) /\ i < j
        Rank(i) == 1 + Cardinality({j \in 1..len : Before(j, i)})
    IN HeadRows([k \in 1..len |-> rows[CHOOSE i \in 1..len : Rank(i) = k]], n)

TopCategories == 15

TopRegions == 10

TopSellersShown == 10

TopSegments == 10

\* The KPI cards row of app.layout, from dashboard_data and the global
\* reviews table it reads.
KpiCardsOf(data, reviews) ==
    [total_revenue    |-> SumOf(data.revenue_by_category, "total_revenue"),
     orders           |-> SumOf(data.revenue_by_category, "order_count"),
     early_deliveries |->
        Times(SeriesDiv(CountEq(Column(data.delivery_metrics, "delay_status"),
                                "Early"),
                        Len(data.delivery_metrics)), 100),
     avg_satisfaction |->
        MeanOfFractions(Column(data.satisfaction_over_time, "mean")),
     reviews          |-> Len(reviews),
     lead_conversion  |-> data.lead_metrics.conversion_rate,
     closed_leads     |-> data.lead_metrics.total_closed_leads,
     qualified_leads  |-> data.lead_metrics.total_qualified_leads]

KpiCards(data) == KpiCardsOf(data, order_reviews_clean)

Tabs == {"tab-revenue", "tab-delivery", "tab-satisfaction", "tab-leads"}

\* What render_tab_content returns for a tab, from dashboard_data and the
\* global reviews table it reads.
TabContentOf(tab, data, reviews) ==
    IF tab = "tab-revenue" THEN
        [category |-> HeadRows(data.revenue_by_category, TopCategories),
         region   |-> HeadRows(data.revenue_by_region, TopRegions),
         seller   |-> HeadRows(data.revenue_by_seller, TopSellersShown)]
    ELSE IF tab = "tab-delivery" THEN
        LET delay  == Column(data.delivery_metrics, "delivery_delay")
            status == Column(data.delivery_metrics, "delay_status")
        IN [delay_distribution |-> value_counts(status, sort_kind),
            delay_data         |-> clip(delay, ClipLow, ClipHigh),
            average_delay      |-> mean(delay),
            median_delay       |-> median(delay),
            early              |-> CountEq(status, "Early"),
            on_time            |-> CountEq(status, "On Time"),
            late               |-> CountEq(status, "Late")]
    ELSE IF tab = "tab-satisfaction" THEN
        [review_distribution |->
            value_counts_sorted(Column(reviews, "review_score")),
         over_time |-> data.satisfaction_over_time]
    ELSE
        [funnel        |-> <<data.lead_metrics.total_qualified_leads,
                             data.lead_metrics.total_closed_leads>>,
         by_segment    |-> nlargest(data.lead_conversion_by_segment,
                                    TopSegments, "conversion_rate"),
         rate          |-> data.lead_metrics.conversion_rate,
         not_converted |-> data.lead_metrics.total_qualified_leads
                           - data.lead_metrics.total_closed_leads]

TabContent(tab, data) == TabContentOf(tab, data, order_reviews_clean)

-----------------------------------------------------------------------------
(* The process *)

\* The report each step binds, in the order of the steps.
StepReport ==
    <<"revenue_by_category", "revenue_by_region", "revenue_by_seller",
      "delivery_metrics", "satisfaction_over_time", "lead_metrics",
      "lead_conversion_by_segment">>

\* A module body that keeps the reports bound before the step that raised.
Prepare_keeping_partial_output ==
    /\ pc = "start"
    /\ prepare_calls' = prepare_calls + 1
    /\ IF PrepareError = "none"
       THEN /\ dashboard_data' = PrepareResult
            /\ error' = "none"
            /\ pc' = "prepared"
       ELSE /\ dashboard_data' =
                 [report \in {StepReport[step] :
                                step \in {k \in DOMAIN StepReport :
                                            \A f \in FailingSteps : k < f}}
                    |-> PrepareResult[report]]
            /\ error' = PrepareError
            /\ pc' = "failed"
    /\ UNCHANGED <<inputs, kpi_cards, active_tab, tabs_content>>

\* dashboard_data = prepare_dashboard_data(), run once while the module loads.
\* An exception leaves dashboard_data unbound and ends the process.
Prepare ==
    /\ pc = "start"
    /\ prepare_calls' = prepare_calls + 1
    /\ IF PrepareError = "none"
       THEN /\ dashboard_data' = PrepareResult
            /\ error' = "none"
            /\ pc' = "prepared"
       ELSE /\ dashboard_data' = dashboard_data
            /\ error' = PrepareError
            /\ pc' = "failed"
    /\ UNCHANGED <<inputs, kpi_cards, active_tab, tabs_content>>

\* app = dash.Dash(...); app.layout = ...; app.run_server(...)
Layout ==
    /\ pc = "prepared"
    /\ kpi_cards' = KpiCards(dashboard_data)
    /\ pc' = "serving"
    /\ UNCHANGED <<inputs, error, dashboard_data, prepare_calls, active_tab,
                   tabs_content>>

\* A callback that runs prepare_dashboard_data again on every tab selection.
render_tab_content_recomputing(tab) ==
    /\ pc = "serving"
    /\ active_tab' = tab
    /\ prepare_calls' = prepare_calls + 1
    /\ dashboard_data' = PrepareResult
    /\ tabs_content' = TabContent(tab, PrepareResult)
    /\ UNCHANGED <<inputs, pc, error, kpi_cards>>

\* A callback whose delivery tab clips the stored delays in place.
render_tab_content_clipping_in_place(tab) ==
    LET stored  == dashboard_data.delivery_metrics
        clipped == [i \in 1..Len(stored) |->
                      [stored[i] EXCEPT !.delivery_delay =
                         Max(ClipLow, Min(ClipHigh, @))]]
        data    == IF tab = "tab-delivery"
                   THEN [dashboard_data EXCEPT !.delivery_metrics = clipped]
                   ELSE dashboard_data
    IN /\ pc = "serving"
       /\ active_tab' = tab
       /\ dashboard_data' = data
       /\ tabs_content' = TabContent(tab, data)
       /\ UNCHANGED <<inputs, pc, error, prepare_calls, kpi_cards>>

\* The callback on dashboard-tabs.value.
render_tab_content(tab) ==
    /\ pc = "serving"
    /\ active_tab' = tab
    /\ tabs_content' = TabContent(tab, dashboard_data)
    /\ UNCHANGED <<inputs, pc, error, dashboard_data, prepare_calls, kpi_cards>>

RenderTab == \E tab \in Tabs : render_tab_content(tab)

Next == Prepare \/ Layout \/ RenderTab

\* The state before the module body runs, for given input tables.
Start ==
    /\ pc = "start"
    /\ error = "none"
    /\ dashboard_data = Unset
    /\ prepare_calls = 0
    /\ kpi_cards = Unset
    /\ active_tab = "tab-revenue"
    /\ tabs_content = Unset

-----------------------------------------------------------------------------
(* Input tables *)

MaxMql == 3

MaxItems == 2

MaxSellers == 22

MaxReviews == 2

SortKinds == {"stable", "reversed"}

\* A timestamp is its calendar date, written as the number yyyymmdd.
Timestamp(y, m, d) == y * 10000 + m * 100 + d

Order(id, customer, ts, delay, status) ==
    [order_id |-> id, customer_id |-> customer,
     order_purchase_timestamp |-> ts,
     delivery_delay |-> delay, delay_status |-> status]

\* A table with unique keys is chosen by a map from keys to row choices;
\* the choice Absent leaves the key out.  The keys present, in key order:
Absent == <<>>

PresentKeys(choice) ==
    Ascending({k \in DOMAIN choice : choice[k] # Absent})

SampleItems ==
    <<[order_id |-> 1, product_id |-> 1, seller_id |-> 1, price |-> 10],
      [order_id |-> 2, product_id |-> 2, seller_id |-> 2, price |-> 20]>>

SampleProducts ==
    <<[product_id |-> 1, product_category_name |-> 1],
      [product_id |-> 2, product_category_name |-> 2]>>

SampleTranslation ==
    <<[product_category_name |-> 1, product_category_name_english |-> 1],
      [product_category_name |-> 2, product_category_name_english |-> 2]>>

SampleOrders ==
    <<Order(1, 1, Timestamp(2017, 2, 1), -45, "Early"),
      Order(2, 2, Timestamp(2017, 10, 5), 0, "On Time"),
      Order(3, 1, Timestamp(2017, 10, 9), 40, "Late")>>

SampleCustomers ==
    <<[customer_id |-> 1, customer_state |-> 1],
      [customer_id |-> 2, customer_state |-> 2]>>

SampleReviews ==
    <<[order_id |-> 1, review_score |-> 5],
      [order_id |-> 2, review_score |-> 2]>>

SampleQualified == <<[mql_id |-> 1], [mql_id |-> 2]>>

SampleClosed ==
    <<[mql_id |-> 1, business_segment |-> 1, won_date |-> 1]>>

\* Lead tables: mql_id is unique in each table.  qualified_leads_clean has a
\* business_segment column or not; closed_leads_clean has one, and a won_date
\* that may be missing.
MqlIds == 1..MaxMql

Segments == {1, 2}

WonDates == {NaN, 1}

QualifiedRows(choice, cols) ==
    LET keys == PresentKeys(choice)
    IN [i \in 1..Len(keys) |->
          IF "business_segment" \in cols
          THEN [mql_id |-> keys[i], business_segment |-> choice[keys[i]][1]]
          ELSE [mql_id |-> keys[i]]]

QualifiedTables(cols) ==
    {QualifiedRows(c, cols) :
        c \in [MqlIds -> {Absent} \cup
                         (IF "business_segment" \in cols
                          THEN {<<s>> : s \in Segments} ELSE {<<0>>})]}

ClosedRows(choice) ==
    LET keys == PresentKeys(choice)
    IN [i \in 1..Len(keys) |->
          [mql_id |-> keys[i], business_segment |-> choice[keys[i]][1],
           won_date |-> choice[keys[i]][2]]]

ClosedTables ==
    {ClosedRows(c) : c \in [MqlIds -> {Absent} \cup (Segments \X WonDates)]}

InitLeads ==
    /\ Start
    /\ order_items_clean = SampleItems
    /\ products_clean = SampleProducts
    /\ product_cat_name_clean = SampleTranslation
    /\ orders_clean = SampleOrders
    /\ customers_clean = SampleCustomers
    /\ order_reviews_clean = SampleReviews
    /\ sort_kind = "stable"
    /\ qualified_columns \in {{"mql_id"}, {"mql_id", "business_segment"}}
    /\ table_columns = FullColumns
    /\ qualified_leads_clean \in QualifiedTables(qualified_columns)
    /\ closed_leads_clean \in ClosedTables

SpecLeads == InitLeads /\ [][Next]_vars

-----------------------------------------------------------------------------
(* Lead conversion: claims C1, C2, C3, C5 *)

Ran == pc # "start"

Completed == pc \in {"prepared", "serving"}

Rows(t) == {t[i] : i \in 1..Len(t)}

\* The closed lead of a qualified lead has a won_date.
Won(q) ==
    \E c \in Rows(closed_leads_clean) :
        c.mql_id = q.mql_id /\ notna(c.won_date)

\* C1: whatever the lead tables (mql_id unique in each), the by-segment report
\* keeps every qualified lead, closed or not: its total_leads add up to the
\* number of rows of qualified_leads_clean.
C1_EveryQualifiedLeadCounted ==
    Ran => /\ Completed
           /\ SumOf(dashboard_data.lead_conversion_by_segment, "total_leads")
                = Len(qualified_leads_clean)

\* C2: for every business segment S of the qualified leads, the report has a
\* row for S with total_leads the number of qualified leads of S,
\* converted_leads the number of those whose closed lead has a won_date, and
\* conversion_rate = converted_leads / total_leads * 100.
C2_SegmentRowCounts ==
    ("business_segment" \in qualified_columns /\ Ran) =>
        \A s \in Values(qualified_leads_clean, "business_segment") :
             LET of_s == {q \in Rows(qualified_leads_clean) :
                            q.business_segment = s}
             IN /\ Completed
                /\ \E r \in Rows(dashboard_data.lead_conversion_by_segment) :
                  /\ r.business_segment = s
                  /\ r.total_leads = Cardinality(of_s)
                  /\ r.converted_leads = Cardinality({q \in of_s : Won(q)})
                  /\ r.conversion_rate.den > 0
                  /\ r.conversion_rate.num * r.total_leads
                       = 100 * r.converted_leads * r.conversion_rate.den

InPercentRange(q) == FracGeq(q, 0) /\ FracLeq(q, 100)

\* C3: lead_metrics' conversion_rate and every by-segment conversion_rate lie
\* in [0, 100], also when closed_leads_clean has more rows than
\* qualified_leads_clean or rows that match no qualified lead.
C3_ConversionRatesInRange ==
    Completed =>
        /\ InPercentRange(dashboard_data.lead_metrics.conversion_rate)
        /\ \A r \in Rows(dashboard_data.lead_conversion_by_segment) :
             InPercentRange(r.conversion_rate)

-----------------------------------------------------------------------------
(* Revenue inputs *)

\* Order items of orders 1 and 2 and products 1, 2 and 3; a product is sold
\* by one seller.  products_clean has no product 3.
ItemOrders == {1, 2}

ItemProducts == {1, 2, 3}

Prices == {10, 20}

SellerOf(product) == IF product = 2 THEN 2 ELSE 1

ItemRows ==
    {[order_id |-> o, product_id |-> p, seller_id |-> SellerOf(p),
      price |-> c] : o \in ItemOrders, p \in ItemProducts, c \in Prices}

ItemTables ==
    UNION {[1..n -> ItemRows] : n \in 0..MaxItems}

\* Category translations: both categories translated, to two names or to
\* one, or category 2 without a translation.
TranslationTables ==
    {SampleTranslation,
     <<[product_category_name |-> 1, product_category_name_english |-> 1]>>,
     <<[product_category_name |-> 1, product_category_name_english |-> 1],
       [product_category_name |-> 2, product_category_name_english |-> 1]>>}

\* Customers: both customers known, or customer 2 missing.
CustomerTables ==
    {SampleCustomers, <<[customer_id |-> 1, customer_state |-> 1]>>}

InitRevenue ==
    /\ Start
    /\ order_items_clean \in ItemTables
    /\ products_clean = SampleProducts
    /\ product_cat_name_clean \in TranslationTables
    /\ orders_clean = SampleOrders
    /\ customers_clean \in CustomerTables
    /\ order_reviews_clean = SampleReviews
    /\ sort_kind \in SortKinds
    /\ qualified_columns = {"mql_id"}
    /\ table_columns = FullColumns
    /\ qualified_leads_clean = SampleQualified
    /\ closed_leads_clean = SampleClosed

SpecRevenue == InitRevenue /\ [][Next]_vars

-----------------------------------------------------------------------------
(* Many sellers *)

\* One order item per seller 1..n, in increasing or decreasing seller order,
\* priced by a pattern that repeats with a period: period 1 prices every
\* seller alike, a period above MaxSellers prices no two alike.
PricePatterns == {<<1, 1>>, <<1, 2>>, <<1, 3>>, <<3, 5>>, <<7, 4>>, <<1, 50>>}

PatternPrice(pat, seller) == 10 * (1 + ((seller * pat[1]) % pat[2]))

SellerItems(n, pat, rising) ==
    [i \in 1..n |->
        LET seller == IF rising THEN i ELSE n + 1 - i
        IN [order_id |-> 1 + (seller % 2), product_id |-> 1 + (seller % 3),
            seller_id |-> seller, price |-> PatternPrice(pat, seller)]]

SellerTables ==
    {SellerItems(n, pat, rising) :
        n \in 0..MaxSellers, pat \in PricePatterns, rising \in BOOLEAN}

InitSeller ==
    /\ Start
    /\ order_items_clean \in SellerTables
    /\ products_clean = SampleProducts
    /\ product_cat_name_clean = SampleTranslation
    /\ orders_clean = SampleOrders
    /\ customers_clean = SampleCustomers
    /\ order_reviews_clean = SampleReviews
    /\ sort_kind \in SortKinds
    /\ qualified_columns = {"mql_id"}
    /\ table_columns = FullColumns
    /\ qualified_leads_clean = SampleQualified
    /\ closed_leads_clean = SampleClosed

SpecSeller == InitSeller /\ [][Next]_vars

SpecSorting == (InitRevenue \/ InitSeller) /\ [][Next]_vars

-----------------------------------------------------------------------------
(* Reviews *)

\* Orders 1, 2 and 3 with a purchase timestamp each (order 3's may be
\* missing); reviews of orders 1..4, order 4 being no row of orders_clean.
PurchaseTimestamps ==
    {Timestamp(2016, 12, 31), Timestamp(2017, 2, 1), Timestamp(2017, 2, 28),
     Timestamp(2017, 10, 5)}

OrderTables ==
    {<<Order(1, 1, t1, -45, "Early"), Order(2, 2, t2, 0, "On Time"),
       Order(3, 1, t3, 40, "Late")>> :
        t1 \in PurchaseTimestamps, t2 \in PurchaseTimestamps,
        t3 \in PurchaseTimestamps \cup {NaN}}

ReviewedOrders == 1..4

ReviewScores == {1, 5}

ReviewRows ==
    {[order_id |-> o, review_score |-> v] :
        o \in ReviewedOrders, v \in ReviewScores}

ReviewTables == UNION {[1..n -> ReviewRows] : n \in 0..MaxReviews}

InitSatisfaction ==
    /\ Start
    /\ order_items_clean = SampleItems
    /\ products_clean = SampleProducts
    /\ product_cat_name_clean = SampleTranslation
    /\ orders_clean \in OrderTables
    /\ customers_clean = SampleCustomers
    /\ order_reviews_clean \in ReviewTables
    /\ sort_kind = "stable"
    /\ qualified_columns = {"mql_id"}
    /\ table_columns = FullColumns
    /\ qualified_leads_clean = SampleQualified
    /\ closed_leads_clean = SampleClosed

SpecSatisfaction == InitSatisfaction /\ [][Next]_vars

SpecTables == (InitRevenue \/ InitSatisfaction) /\ [][Next]_vars

\* Orders with a delivery_delay in days, inside, on and outside the limits
\* of the delivery tab's clipping, and a delay_status label each.
MaxOrders == 2

DeliveryDelays == {-45, -30, 0, 30, 40}

DelayStatuses == {"Early", "On Time", "Late"}

DeliveryOrderTables ==
    UNION {{[i \in 1..n |->
               Order(i, 1, Timestamp(2017, 10, 5), delay[i], status[i])] :
              delay \in [1..n -> DeliveryDelays],
              status \in [1..n -> DelayStatuses]} : n \in 0..MaxOrders}

InitDelivery ==
    /\ Start
    /\ order_items_clean = SampleItems
    /\ products_clean = SampleProducts
    /\ product_cat_name_clean = SampleTranslation
    /\ orders_clean \in DeliveryOrderTables
    /\ customers_clean = SampleCustomers
    /\ order_reviews_clean = SampleReviews
    /\ sort_kind = "stable"
    /\ qualified_columns = {"mql_id"}
    /\ table_columns = FullColumns
    /\ qualified_leads_clean = SampleQualified
    /\ closed_leads_clean = SampleClosed

SpecDelivery == InitDelivery /\ [][Next]_vars

\* Tables that lack up to MaxMissing of the columns the pipeline names.
MaxMissing == 2

TableColumns ==
    UNION {{<<table, column>> : column \in FullColumns[table]} :
             table \in DOMAIN FullColumns}
        \cup {<<"qualified_leads_clean", "mql_id">>}

RECURSIVE MissingSets(_)
MissingSets(n) ==
    IF n = 0 THEN {{}}
    ELSE MissingSets(n - 1)
         \cup {gone \cup {pair} : gone \in MissingSets(n - 1),
                                  pair \in TableColumns}

Without(columns, table, gone) ==
    columns \ {pair[2] : pair \in {q \in gone : q[1] = table}}

InitSchema ==
    /\ Start
    /\ order_items_clean = SampleItems
    /\ products_clean = SampleProducts
    /\ product_cat_name_clean = SampleTranslation
    /\ orders_clean = SampleOrders
    /\ customers_clean = SampleCustomers
    /\ order_reviews_clean = SampleReviews
    /\ sort_kind = "stable"
    /\ qualified_leads_clean = SampleQualified
    /\ closed_leads_clean = SampleClosed
    /\ \E gone \in MissingSets(MaxMissing) :
         /\ qualified_columns =
              Without({"mql_id"}, "qualified_leads_clean", gone)
         /\ table_columns =
              [table \in DOMAIN FullColumns |->
                 Without(FullColumns[table], table, gone)]

SpecSchema == InitSchema /\ [][Next]_vars

Init == InitLeads \/ InitRevenue \/ InitSeller \/ InitSatisfaction

Spec == Init /\ [][Next]_vars

-----------------------------------------------------------------------------
(* Revenue reports: claims C4, C6, C7, C8, C9 *)

Distinct(rows, col) == Cardinality(Values(rows, col))

\* C4: in revenue_by_category, revenue_by_region and revenue_by_seller every
\* row's order_count is the number of distinct order_id values among the
\* order items of its group.
C4_OrderCountIsDistinctOrders ==
    Completed =>
        /\ \A r \in Rows(dashboard_data.revenue_by_seller) :
             r.order_count =
               Distinct(Where(order_items_clean, "seller_id", r.seller_id),
                        "order_id")
        /\ \A r \in Rows(dashboard_data.revenue_by_category) :
             r.order_count =
               Distinct(Where(category_joined(order_items_clean, products_clean,
                                              product_cat_name_clean),
                              "product_category_name_english",
                              r.product_category_name_english),
                        "order_id")
        /\ \A r \in Rows(dashboard_data.revenue_by_region) :
             r.order_count =
               Distinct(Where(region_joined(order_items_clean, orders_clean,
                                            customers_clean),
                              "customer_state", r.customer_state),
                        "order_id")

\* The order item's product is a row of products_clean whose category has a
\* translation to the English name.
TranslatedTo(item, name) ==
    \E p \in Rows(products_clean), t \in Rows(product_cat_name_clean) :
        /\ p.product_id = item.product_id
        /\ t.product_category_name = p.product_category_name
        /\ t.product_category_name_english = name

EnglishNames == Values(product_cat_name_clean, "product_category_name_english")

Dropped(item) == \A name \in EnglishNames : ~TranslatedTo(item, name)

\* C6: revenue_by_category has one row for each English name that some order
\* item translates to, its total_revenue is the sum of price over exactly
\* those items, and an item without a product or a translation is in no row:
\* there is no row for it under any other label.
C6_CategoryRevenueOfTranslatedItems ==
    Completed =>
        LET report == dashboard_data.revenue_by_category
        IN /\ \A r \in Rows(report) :
                /\ r.product_category_name_english \in EnglishNames
                /\ r.total_revenue =
                     SumOf(SelectSeq(order_items_clean,
                             LAMBDA it :
                               TranslatedTo(it, r.product_category_name_english)),
                           "price")
           /\ Values(report, "product_category_name_english") =
                {name \in EnglishNames :
                    \E it \in Rows(order_items_clean) : TranslatedTo(it, name)}
           /\ Len(report) = Distinct(report, "product_category_name_english")

C6_Witness ==
    /\ Completed
    /\ \E it \in Rows(order_items_clean) :
         Dropped(it) /\ it.product_id \in Values(products_clean, "product_id")
    /\ \E it \in Rows(order_items_clean) : ~Dropped(it)
    /\ SumOf(dashboard_data.revenue_by_category, "total_revenue")
         < SumOf(order_items_clean, "price")

\* C7: the reports never hold more than their source tables: the
\* total_revenue of revenue_by_category, and of revenue_by_region, adds up to
\* at most the sum of price over order_items_clean, their order_count to at
\* most its number of rows, and the count of satisfaction_over_time to at
\* most the number of rows of order_reviews_clean.
C7_ReportsBoundedBySources ==
    Completed =>
        /\ SumOf(dashboard_data.revenue_by_category, "total_revenue")
             <= SumOf(order_items_clean, "price")
        /\ SumOf(dashboard_data.revenue_by_region, "total_revenue")
             <= SumOf(order_items_clean, "price")
        /\ SumOf(dashboard_data.revenue_by_category, "order_count")
             <= Len(order_items_clean)
        /\ SumOf(dashboard_data.revenue_by_region, "order_count")
             <= Len(order_items_clean)
        /\ SumOf(dashboard_data.satisfaction_over_time, "count")
             <= Len(order_reviews_clean)

C7_Witness ==
    /\ Completed
    /\ 0 < SumOf(dashboard_data.revenue_by_region, "total_revenue")
    /\ SumOf(dashboard_data.revenue_by_region, "total_revenue")
         < SumOf(order_items_clean, "price")
    /\ SumOf(dashboard_data.revenue_by_category, "order_count")
         = Len(order_items_clean)
    /\ Len(order_items_clean) > 1

NonIncreasing(rows, col) ==
    \A i \in 1..(Len(rows) - 1) : rows[i][col] >= rows[i + 1][col]

\* C8: revenue_by_category, revenue_by_region and revenue_by_seller are in
\* non-increasing order of total_revenue, and revenue_by_seller has at most
\* 20 rows however many sellers there are.
C8_SortedAndTopTwenty ==
    Completed =>
        /\ NonIncreasing(dashboard_data.revenue_by_category, "total_revenue")
        /\ NonIncreasing(dashboard_data.revenue_by_region, "total_revenue")
        /\ NonIncreasing(dashboard_data.revenue_by_seller, "total_revenue")
        /\ Len(dashboard_data.revenue_by_seller) <= 20

C8_Witness ==
    /\ Completed
    /\ Distinct(order_items_clean, "seller_id") > 20
    /\ Len(dashboard_data.revenue_by_seller) = 20
    /\ dashboard_data.revenue_by_seller[1].total_revenue
         > dashboard_data.revenue_by_seller[20].total_revenue
    /\ Len(dashboard_data.revenue_by_category) > 1
    /\ dashboard_data.revenue_by_category[1].total_revenue
         > dashboard_data.revenue_by_category[2].total_revenue

\* The sellers' totals in the order of the sellers' first order item, and in
\* the order of seller_id (the order groupby hands to the sort).
SellerTotals(sellers) ==
    [i \in 1..Len(sellers) |->
        LET grp == Where(order_items_clean, "seller_id", sellers[i])
        IN [seller_id |-> sellers[i],
            total_revenue |-> SumOf(grp, "price"),
            order_count |-> Len(grp)]]

TopByInputOrder(sellers) ==
    HeadRows(SortDescending(SellerTotals(sellers), "total_revenue", "stable"), 20)

\* C9: with more than 20 sellers and a tie in total_revenue at the 20th
\* position, revenue_by_seller keeps the tied sellers that come first in
\* input order (the sort is stable).
C9_TiesBrokenByInputOrder ==
    (Completed /\ Distinct(order_items_clean, "seller_id") > 20) =>
        \/ dashboard_data.revenue_by_seller =
             TopByInputOrder(Unique(Column(order_items_clean, "seller_id")))
        \/ dashboard_data.revenue_by_seller =
             TopByInputOrder(GroupKeys(order_items_clean, "seller_id"))

-----------------------------------------------------------------------------
(* Satisfaction over time: claim C10 *)

\* The reviews that have an order with a purchase timestamp, each with the
\* calendar month <<year, month>> of that timestamp.
ReviewMonths ==
    {<<YearOf(o.order_purchase_timestamp), MonthOf(o.order_purchase_timestamp)>> :
        o \in {o \in Rows(orders_clean) :
                 /\ notna(o.order_purchase_timestamp)
                 /\ \E r \in Rows(order_reviews_clean) : r.order_id = o.order_id}}

\* The calendar month a label "YYYY-MM" denotes.
LabelMonth(label) ==
    <<(label[1] - 48) * 1000 + (label[2] - 48) * 100 + (label[3] - 48) * 10
        + (label[4] - 48),
      (label[6] - 48) * 10 + (label[7] - 48)>>

Earlier(a, b) == a[1] < b[1] \/ (a[1] = b[1] /\ a[2] < b[2])

\* C10: satisfaction_over_time has exactly one row per calendar month of the
\* purchase timestamps of the joined review/order rows, its month labels
\* increase strictly in chronological order, and every mean lies in [1, 5]
\* when the review scores are integers 1..5.
C10_OneRowPerMonthInOrder ==
    Completed =>
        LET report == dashboard_data.satisfaction_over_time
        IN /\ Len(report) = Cardinality(ReviewMonths)
           /\ {LabelMonth(r.order_month) : r \in Rows(report)} = ReviewMonths
           /\ \A r \in Rows(report) :
                Len(r.order_month) = 7 /\ r.order_month[5] = 45
           /\ \A i \in 1..(Len(report) - 1) :
                Earlier(LabelMonth(report[i].order_month),
                        LabelMonth(report[i + 1].order_month))
           /\ \A r \in Rows(report) : FracGeq(r.mean, 1) /\ FracLeq(r.mean, 5)

C10_Witness ==
    /\ Completed
    /\ Len(dashboard_data.satisfaction_over_time) = 2
    /\ Len(order_reviews_clean) = 2
    /\ \E a, b \in Rows(orders_clean) :
         /\ a.order_id = order_reviews_clean[1].order_id
         /\ b.order_id = order_reviews_clean[2].order_id
         /\ notna(a.order_purchase_timestamp)
         /\ notna(b.order_purchase_timestamp)
         /\ YearOf(b.order_purchase_timestamp) < YearOf(a.order_purchase_timestamp)

-----------------------------------------------------------------------------
(* Satisfaction over time: claim C11 *)

NoMonth == <<0, 0>>

\* The calendar month a review is counted in: that of the purchase
\* timestamp of the row of orders_clean with its order_id, if there is one.
ReviewMonth(review) ==
    LET matches == {o \in Rows(orders_clean) :
                      /\ o.order_id = review.order_id
                      /\ notna(o.order_purchase_timestamp)}
    IN IF matches = {} THEN NoMonth
       ELSE LET o == CHOOSE o \in matches : TRUE
            IN <<YearOf(o.order_purchase_timestamp),
                 MonthOf(o.order_purchase_timestamp)>>

ReviewsOfMonth(month) ==
    SelectSeq(order_reviews_clean, LAMBDA r : ReviewMonth(r) = month)

\* C11: a review is counted in the month of its order's purchase timestamp
\* exactly when its order_id is that of a row of orders_clean: a review
\* without a matching order is in no month's count or mean, and a review
\* with one is counted exactly once, in that month.
C11_ReviewsCountedOnceInOrderMonth ==
    Completed =>
        LET report == dashboard_data.satisfaction_over_time
        IN /\ \A r \in Rows(report) :
                LET of_month == ReviewsOfMonth(LabelMonth(r.order_month))
                IN /\ LabelMonth(r.order_month) # NoMonth
                   /\ r.count = Len(of_month)
                   /\ r.mean.den > 0
                   /\ r.mean.num * r.count
                        = SumOf(of_month, "review_score") * r.mean.den
           /\ SumOf(report, "count") =
                Len(SelectSeq(order_reviews_clean,
                              LAMBDA r : ReviewMonth(r) # NoMonth))

C11_Witness ==
    /\ Completed
    /\ Len(order_reviews_clean) = 2
    /\ order_reviews_clean[1].order_id \notin Values(orders_clean, "order_id")
    /\ ReviewMonth(order_reviews_clean[2]) # NoMonth
    /\ Len(dashboard_data.satisfaction_over_time) = 1
    /\ dashboard_data.satisfaction_over_time[1].count = 1

-----------------------------------------------------------------------------
(* The snapshot while serving: claim C12 *)

\* C12: once the process serves, no step (a tab selection with any of the
\* four keys, after any earlier selections) changes dashboard_data or runs
\* prepare_dashboard_data again: the seven reports stay what
\* prepare_dashboard_data returned at startup and it has run exactly once.
C12_SnapshotNeverRecomputed ==
    [][pc = "serving" =>
         /\ dashboard_data' = dashboard_data
         /\ dashboard_data' = PrepareResult
         /\ DOMAIN dashboard_data' =
              {"revenue_by_category", "revenue_by_region", "revenue_by_seller",
               "delivery_metrics", "satisfaction_over_time", "lead_metrics",
               "lead_conversion_by_segment"}
         /\ prepare_calls = 1
         /\ prepare_calls' = 1]_vars

C12_Witness ==
    /\ pc = "serving"
    /\ active_tab = "tab-leads"
    /\ tabs_content = TabContent("tab-leads", dashboard_data)
    /\ dashboard_data = PrepareResult
    /\ prepare_calls = 1

-----------------------------------------------------------------------------
(* Delivery metrics: claim C13 *)

\* metrics has one row per row of orders, in the same order, holding that
\* order's delivery_delay and delay_status and nothing else.
ProjectionOf(metrics, orders) ==
    /\ Len(metrics) = Len(orders)
    /\ \A i \in 1..Len(orders) :
         /\ DOMAIN metrics[i] = {"delivery_delay", "delay_status"}
         /\ metrics[i].delivery_delay = orders[i].delivery_delay
         /\ metrics[i].delay_status = orders[i].delay_status

\* C13: delivery_metrics has exactly one row per row of orders_clean, with
\* that order's delivery_delay (unclipped) and delay_status; rendering the
\* delivery tab, which shows the delays clipped to [-30, 30], changes neither
\* the stored delivery_metrics nor orders_clean.
C13_DeliveryMetricsUnclippedProjection ==
    [][/\ (pc' = "prepared" \/ pc' = "serving") =>
             ProjectionOf(dashboard_data'.delivery_metrics, orders_clean')
       /\ (pc = "serving" /\ active_tab' = "tab-delivery") =>
             /\ tabs_content'.delay_data =
                  clip(Column(dashboard_data.delivery_metrics,
                              "delivery_delay"), ClipLow, ClipHigh)
             /\ dashboard_data'.delivery_metrics
                  = dashboard_data.delivery_metrics
             /\ orders_clean' = orders_clean]_vars

C13_Witness ==
    /\ pc = "serving"
    /\ active_tab = "tab-delivery"
    /\ tabs_content # Unset
    /\ \E i \in 1..Len(orders_clean) :
         /\ orders_clean[i].delivery_delay = -45
         /\ dashboard_data.delivery_metrics[i].delivery_delay = -45
         /\ tabs_content.delay_data[i] = ClipLow
    /\ \E i \in 1..Len(orders_clean) :
         /\ dashboard_data.delivery_metrics[i].delivery_delay = 40
         /\ tabs_content.delay_data[i] = ClipHigh

-----------------------------------------------------------------------------
(* Missing columns: claim C14 *)

\* The columns of a table that some step of prepare_dashboard_data names.
RequiredColumns(table) ==
    UNION {StepColumns[step][table] :
             step \in {k \in DOMAIN StepColumns :
                         table \in DOMAIN StepColumns[k]}}

LacksRequiredColumn ==
    \E table \in DOMAIN FullColumns \cup {"qualified_leads_clean"} :
        ~(RequiredColumns(table) \subseteq Columns(table))

\* C14: when an input table lacks a required column, the process never
\* gets past prepare_dashboard_data: once it has run the process has failed
\* with an error, dashboard_data is bound to nothing (no report, not even
\* one of an earlier step), and neither the layout nor a tab is rendered.
C14_MissingColumnFailsWithoutOutput ==
    LacksRequiredColumn =>
        /\ pc \in {"start", "failed"}
        /\ dashboard_data = Unset
        /\ kpi_cards = Unset
        /\ tabs_content = Unset
        /\ Ran => (pc = "failed" /\ error = "KeyError" /\ prepare_calls = 1)

C14_Witness ==
    /\ pc = "failed"
    /\ error = "KeyError"
    /\ table_columns.orders_clean = FullColumns.orders_clean \ {"delay_status"}
    /\ \A table \in DOMAIN FullColumns \ {"orders_clean"} :
         table_columns[table] = FullColumns[table]
    /\ qualified_columns = {"mql_id"}
    /\ dashboard_data = Unset
    /\ tabs_content = Unset

-----------------------------------------------------------------------------
(* What the presentation reads: claim C15 *)

\* The reviews tables from which prepare_dashboard_data would have returned
\* the dashboard_data at hand.
SameSnapshot ==
    {reviews \in ReviewTables :
        satisfaction_over_time(reviews, orders_clean)
          = dashboard_data.satisfaction_over_time}

\* C15: the KPI cards and the four tab views are determined by the reports
\* of dashboard_data alone: the raw input tables, read through nothing but
\* dashboard_data, make no difference to what is shown.
C15_DisplayReadsOnlySnapshot ==
    pc = "serving" =>
        \A reviews \in SameSnapshot :
            /\ kpi_cards = KpiCardsOf(dashboard_data, reviews)
            /\ tabs_content # Unset =>
                 tabs_content = TabContentOf(active_tab, dashboard_data, reviews)

====
